---- MODULE Spec2Model ----
(***************************************************************************)
(* A model of the kbinxml reader and writer (src/src/lib.rs) and of the    *)
(* typed-value registry (src/src/node_types.rs).                           *)
(*                                                                         *)
(* Bytes are naturals 0..255.  Text (element names, attribute names and    *)
(* values, element text) is a sequence of Unicode code points, so that     *)
(* "u8" is <<117, 56>> and the digit '7' is 55.  Positions are 0-based     *)
(* offsets as in std::io::Cursor; sequences are 1-based, so the byte at    *)
(* offset p of a buffer b is b[p + 1].                                     *)
(***************************************************************************)
EXTENDS Integers, Sequences, FiniteSets, TLC

(***************************************************************************)
(* Bounds of the model.                                                    *)
(***************************************************************************)
\* the longest node section, in records
MaxRecords == 3
\* the largest array count of the byte-level conversions
MaxArr == 2
\* the longest stream of node records left to a Deserializer
MaxNodes == 3

(***************************************************************************)
(* Program constants.                                                      *)
(***************************************************************************)
SIGNATURE == 160
SIG_COMPRESSED == 66
\* the array flag of a node type byte (lib.rs: raw_node_type & 64)
ARRAY_MASK == 64

VARIABLES
    build,           \* "any" until a read depends on it, then "debug" (integer
                     \* overflow panics) or "release" (it wraps)
    input,           \* the bytes given to from_binary
    phase,           \* 1: decoding the given input, 2: decoding to_binary's output
    pc,              \* "start" | "loop" | "exit" | "encode" | "done"
    encoding,        \* the header's encoding byte
    node_pos,        \* node_buf.position()
    data_buf_start,  \* len_node + 8
    data_pos,        \* data_buf.position(), relative to data_buf_start
    offset_1,        \* KbinXml.offset_1
    offset_2,        \* KbinXml.offset_2
    stack,           \* the reader's stack of elements
    outcome,         \* the outcome of the call in progress
    first,           \* the outcome of the first from_binary (phase 2)
    last_raw,        \* the raw_id byte of the record processed last
    kb,              \* the state of a byte-level conversion (parse_bytes / to_bytes)
    records,         \* history: the node records the loop has processed
    reads,           \* history: the reads of the data section that succeeded
    closed,          \* history: the root as it was when a NodeEnd met it alone
    de               \* the state of a Struct::next_key_seed call and its Deserializer

vars == <<build, input, phase, pc, encoding, node_pos, data_buf_start, data_pos,
          offset_1, offset_2, stack, outcome, first, last_raw, kb,
          records, reads, closed, de>>

(***************************************************************************)
(* Results.  Rust's Result is a record with a tag: "ok" with the value,    *)
(* "err" with the error kind, "panic" when the call aborts.                *)
(***************************************************************************)
Err(kind) == [tag |-> "err", kind |-> kind]
Panic(why) == [tag |-> "panic", kind |-> why]

Max(a, b) == IF a < b THEN b ELSE a

\* the sequence s without its first n items
Drop(s, n) == SubSeq(s, n + 1, Len(s))
Take(s, n) == SubSeq(s, 1, n)

(***************************************************************************)
(* The type registry: construct_types! of node_types.rs.  `name` is the    *)
(* type's textual name as code points.                                     *)
(***************************************************************************)
StandardTypes == {
    [id |-> 2, konst |-> "S8", name |-> <<115, 56>>, size |-> 1, count |-> 1, inner |-> "i8"],
    [id |-> 3, konst |-> "U8", name |-> <<117, 56>>, size |-> 1, count |-> 1, inner |-> "u8"],
    [id |-> 4, konst |-> "S16", name |-> <<115, 49, 54>>, size |-> 2, count |-> 1, inner |-> "i16"],
    [id |-> 5, konst |-> "U16", name |-> <<117, 49, 54>>, size |-> 2, count |-> 1, inner |-> "u16"],
    [id |-> 6, konst |-> "S32", name |-> <<115, 51, 50>>, size |-> 4, count |-> 1, inner |-> "i32"],
    [id |-> 7, konst |-> "U32", name |-> <<117, 51, 50>>, size |-> 4, count |-> 1, inner |-> "u32"],
    [id |-> 8, konst |-> "S64", name |-> <<115, 54, 52>>, size |-> 8, count |-> 1, inner |-> "i64"],
    [id |-> 9, konst |-> "U64", name |-> <<117, 54, 52>>, size |-> 8, count |-> 1, inner |-> "u64"],
    [id |-> 10, konst |-> "Binary", name |-> <<98, 105, 110>>, size |-> 1, count |-> -1, inner |-> "DummyConverter"],
    [id |-> 11, konst |-> "String", name |-> <<115, 116, 114>>, size |-> 1, count |-> -1, inner |-> "DummyConverter"],
    [id |-> 12, konst |-> "Ip4", name |-> <<105, 112, 52>>, size |-> 4, count |-> 1, inner |-> "Ip4"],
    [id |-> 13, konst |-> "Time", name |-> <<116, 105, 109, 101>>, size |-> 4, count |-> 1, inner |-> "u32"],
    [id |-> 14, konst |-> "Float", name |-> <<102, 108, 111, 97, 116>>, size |-> 4, count |-> 1, inner |-> "f32"],
    [id |-> 15, konst |-> "Double", name |-> <<100, 111, 117, 98, 108, 101>>, size |-> 8, count |-> 1, inner |-> "f64"],
    [id |-> 16, konst |-> "S8_2", name |-> <<50, 115, 56>>, size |-> 1, count |-> 2, inner |-> "i8"],
    [id |-> 17, konst |-> "U8_2", name |-> <<50, 117, 56>>, size |-> 1, count |-> 2, inner |-> "u8"],
    [id |-> 18, konst |-> "S16_2", name |-> <<50, 115, 49, 54>>, size |-> 2, count |-> 2, inner |-> "i16"],
    [id |-> 19, konst |-> "U16_2", name |-> <<50, 117, 49, 54>>, size |-> 2, count |-> 2, inner |-> "u16"],
    [id |-> 20, konst |-> "S32_2", name |-> <<50, 115, 51, 50>>, size |-> 4, count |-> 2, inner |-> "i32"],
    [id |-> 21, konst |-> "U32_2", name |-> <<50, 117, 51, 50>>, size |-> 4, count |-> 2, inner |-> "u32"],
    [id |-> 22, konst |-> "S64_2", name |-> <<50, 115, 54, 52>>, size |-> 8, count |-> 2, inner |-> "i64"],
    [id |-> 23, konst |-> "U64_2", name |-> <<50, 117, 54, 52>>, size |-> 8, count |-> 2, inner |-> "u64"],
    [id |-> 24, konst |-> "Float2", name |-> <<50, 102>>, size |-> 4, count |-> 2, inner |-> "f32"],
    [id |-> 25, konst |-> "Double2", name |-> <<50, 100>>, size |-> 8, count |-> 2, inner |-> "f64"],
    [id |-> 26, konst |-> "S8_3", name |-> <<51, 115, 56>>, size |-> 1, count |-> 3, inner |-> "i8"],
    [id |-> 27, konst |-> "U8_3", name |-> <<51, 117, 56>>, size |-> 1, count |-> 3, inner |-> "u8"],
    [id |-> 28, konst |-> "S16_3", name |-> <<51, 115, 49, 54>>, size |-> 2, count |-> 3, inner |-> "i16"],
    [id |-> 29, konst |-> "U16_3", name |-> <<51, 117, 49, 54>>, size |-> 2, count |-> 3, inner |-> "u16"],
    [id |-> 30, konst |-> "S32_3", name |-> <<51, 115, 51, 50>>, size |-> 4, count |-> 3, inner |-> "i32"],
    [id |-> 31, konst |-> "U32_3", name |-> <<51, 117, 51, 50>>, size |-> 4, count |-> 3, inner |-> "u32"],
    [id |-> 32, konst |-> "S64_3", name |-> <<51, 115, 54, 52>>, size |-> 8, count |-> 3, inner |-> "i64"],
    [id |-> 33, konst |-> "U64_3", name |-> <<51, 117, 54, 52>>, size |-> 8, count |-> 3, inner |-> "u64"],
    [id |-> 34, konst |-> "Float3", name |-> <<51, 102>>, size |-> 4, count |-> 3, inner |-> "f32"],
    [id |-> 35, konst |-> "Double3", name |-> <<51, 100>>, size |-> 8, count |-> 3, inner |-> "f64"],
    [id |-> 36, konst |-> "S8_4", name |-> <<52, 115, 56>>, size |-> 1, count |-> 4, inner |-> "i8"],
    [id |-> 37, konst |-> "U8_4", name |-> <<52, 117, 56>>, size |-> 1, count |-> 4, inner |-> "u8"],
    [id |-> 38, konst |-> "S16_4", name |-> <<52, 115, 49, 54>>, size |-> 2, count |-> 4, inner |-> "i16"],
    [id |-> 39, konst |-> "U16_4", name |-> <<52, 117, 49, 54>>, size |-> 2, count |-> 4, inner |-> "u16"],
    [id |-> 40, konst |-> "S32_4", name |-> <<52, 115, 51, 50>>, size |-> 4, count |-> 4, inner |-> "i32"],
    [id |-> 41, konst |-> "U32_4", name |-> <<52, 117, 51, 50>>, size |-> 4, count |-> 4, inner |-> "u32"],
    [id |-> 42, konst |-> "S64_4", name |-> <<52, 115, 54, 52>>, size |-> 8, count |-> 4, inner |-> "i64"],
    [id |-> 43, konst |-> "U64_4", name |-> <<52, 117, 54, 52>>, size |-> 8, count |-> 4, inner |-> "u64"],
    [id |-> 44, konst |-> "Float4", name |-> <<52, 102>>, size |-> 4, count |-> 4, inner |-> "f32"],
    [id |-> 45, konst |-> "Double4", name |-> <<52, 100>>, size |-> 8, count |-> 4, inner |-> "f64"],
    [id |-> 48, konst |-> "Vs8", name |-> <<118, 115, 56>>, size |-> 1, count |-> 16, inner |-> "i8"],
    [id |-> 49, konst |-> "Vu8", name |-> <<118, 117, 56>>, size |-> 1, count |-> 16, inner |-> "u8"],
    [id |-> 50, konst |-> "Vs16", name |-> <<118, 115, 49, 54>>, size |-> 2, count |-> 8, inner |-> "i16"],
    [id |-> 51, konst |-> "Vu16", name |-> <<118, 117, 49, 54>>, size |-> 2, count |-> 8, inner |-> "u16"],
    [id |-> 52, konst |-> "Boolean", name |-> <<98, 111, 111, 108>>, size |-> 1, count |-> 1, inner |-> "bool"],
    [id |-> 53, konst |-> "Boolean2", name |-> <<50, 98>>, size |-> 1, count |-> 2, inner |-> "bool"],
    [id |-> 54, konst |-> "Boolean3", name |-> <<51, 98>>, size |-> 1, count |-> 3, inner |-> "bool"],
    [id |-> 55, konst |-> "Boolean4", name |-> <<52, 98>>, size |-> 1, count |-> 4, inner |-> "bool"],
    [id |-> 56, konst |-> "Vb", name |-> <<118, 98>>, size |-> 1, count |-> 16, inner |-> "bool"],
    [id |-> 1, konst |-> "NodeStart", name |-> <<118, 111, 105, 100>>, size |-> 0, count |-> 0, inner |-> "InvalidConverter"],
    [id |-> 46, konst |-> "Attribute", name |-> <<97, 116, 116, 114>>, size |-> 0, count |-> 0, inner |-> "InvalidConverter"],
    [id |-> 190, konst |-> "NodeEnd", name |-> <<110, 111, 100, 101, 69, 110, 100>>, size |-> 0, count |-> 0, inner |-> "InvalidConverter"],
    [id |-> 191, konst |-> "FileEnd", name |-> <<102, 105, 108, 101, 69, 110, 100>>, size |-> 0, count |-> 0, inner |-> "InvalidConverter"]
    }

TypeIds == {t.id : t \in StandardTypes}

TypeOfId(id) == CHOOSE t \in StandardTypes : t.id = id

\* StandardType::from_u8: the registry entry of an id; panics on any other id
from_u8(b) ==
    IF b \in TypeIds THEN [tag |-> "ok", type |-> TypeOfId(b)]
    ELSE Panic("Node type not implemented")

\* StandardType::from_name: the registry entry of a name ($name only, never
\* alt_name); panics on any other name
from_name(name) ==
    IF \E t \in StandardTypes : t.name = name
    THEN [tag |-> "ok", type |-> CHOOSE t \in StandardTypes : t.name = name]
    ELSE Panic("Node name not implemented")

(***************************************************************************)
(* Numbers on the wire.  A lane of 8 bytes is wider than the integers of   *)
(* the tools, so the decimal conversions work on big-endian byte sequences.*)
(***************************************************************************)
IsDigit(ch) == ch \in 48..57

\* long division of a big-endian number by ten, `rem` carried in from the left
RECURSIVE LongDiv10(_, _)
LongDiv10(bytes, rem) ==
    IF bytes = << >> THEN [q |-> << >>, r |-> rem]
    ELSE LET cur == rem * 256 + Head(bytes)
             rest == LongDiv10(Tail(bytes), cur % 10)
         IN [q |-> <<cur \div 10>> \o rest.q, r |-> rest.r]

\* Display of an unsigned integer: its decimal digits, no leading zero
RECURSIVE UDecimal(_)
UDecimal(bytes) ==
    LET d == LongDiv10(bytes, 0)
    IN IF \A i \in DOMAIN d.q : d.q[i] = 0 THEN <<48 + d.r>>
       ELSE UDecimal(d.q) \o <<48 + d.r>>

RECURSIVE Inc(_)
Inc(b) ==
    IF b = << >> THEN << >>
    ELSE LET n == Len(b)
         IN IF b[n] = 255 THEN Inc(SubSeq(b, 1, n - 1)) \o <<0>>
            ELSE SubSeq(b, 1, n - 1) \o <<b[n] + 1>>

\* two's complement negation at the width of b
Negate(b) == Inc([i \in DOMAIN b |-> 255 - b[i]])

\* Display of a two's complement integer
IDecimal(bytes) ==
    IF bytes[1] >= 128 THEN <<45>> \o UDecimal(Negate(bytes)) ELSE UDecimal(bytes)

\* b * m + c at the width of b; c is the carry out
RECURSIVE MulAdd(_, _, _)
MulAdd(b, m, c) ==
    IF b = << >> THEN [b |-> << >>, c |-> c]
    ELSE LET n == Len(b)
             v == b[n] * m + c
             rest == MulAdd(SubSeq(b, 1, n - 1), m, v \div 256)
         IN [b |-> rest.b \o <<v % 256>>, c |-> rest.c]

\* the digits of `text` accumulated into acc; fails on a non-digit or on overflow
RECURSIVE ParseDigits(_, _)
ParseDigits(text, acc) ==
    IF text = << >> THEN [tag |-> "ok", b |-> acc]
    ELSE IF ~IsDigit(Head(text)) THEN Err("StringParse")
    ELSE LET r == MulAdd(acc, 10, Head(text) - 48)
         IN IF r.c > 0 THEN Err("StringParse") ELSE ParseDigits(Tail(text), r.b)

Zeros(n) == [i \in 1..n |-> 0]

\* str::parse::<uN>() followed by to_be().to_bytes(): an optional '+', then digits
ParseUnsigned(text, size) ==
    LET digits == IF text # << >> /\ Head(text) = 43 THEN Tail(text) ELSE text
    IN IF digits = << >> THEN Err("StringParse") ELSE ParseDigits(digits, Zeros(size))

\* str::parse::<iN>() followed by to_be().to_bytes(): an optional sign, then digits
ParseSigned(text, size) ==
    LET neg == text # << >> /\ Head(text) = 45
        digits == IF text # << >> /\ Head(text) \in {43, 45} THEN Tail(text) ELSE text
        mag == ParseDigits(digits, Zeros(size))
        min == [i \in 1..size |-> IF i = 1 THEN 128 ELSE 0]
    IN IF digits = << >> THEN Err("StringParse")
       ELSE IF mag.tag # "ok" THEN mag
       ELSE IF neg THEN (IF mag.b[1] < 128 \/ mag.b = min
                         THEN [tag |-> "ok", b |-> Negate(mag.b)]
                         ELSE Err("StringParse"))
       ELSE IF mag.b[1] < 128 THEN mag ELSE Err("StringParse")

SignedInner == {"i8", "i16", "i32", "i64"}
UnsignedInner == {"u8", "u16", "u32", "u64"}
IntegerInner == SignedInner \cup UnsignedInner
InnerWidth(inner) ==
    CASE inner \in {"i8", "u8"} -> 1
      [] inner \in {"i16", "u16"} -> 2
      [] inner \in {"i32", "u32"} -> 4
      [] inner \in {"i64", "u64"} -> 8

\* the text split at every `sep`, as str::split does (no item is dropped)
RECURSIVE Split(_, _)
Split(text, sep) ==
    IF \A i \in DOMAIN text : text[i] # sep THEN <<text>>
    ELSE LET k == CHOOSE i \in DOMAIN text :
                      text[i] = sep /\ \A j \in 1..(i - 1) : text[j] # sep
         IN <<SubSeq(text, 1, k - 1)>> \o Split(Drop(text, k), sep)

(***************************************************************************)
(* KbinWrapperType: the per-lane converters of node_types.rs.  The float   *)
(* converters (f32, f64) render through Rust's float formatting and are    *)
(* given no table here; no input of the model carries a float lane.        *)
(***************************************************************************)
\* KbinWrapperType::from_kbin_bytes: the text of one lane
from_kbin_bytes(inner, bytes) ==
    CASE inner \in IntegerInner ->
           \* clone_from_slice panics when the slice is not size_of::<T>() long
           IF Len(bytes) # InnerWidth(inner) THEN Panic("clone_from_slice length")
           ELSE [tag |-> "ok",
                 text |-> IF inner \in SignedInner THEN IDecimal(bytes) ELSE UDecimal(bytes)]
      [] inner = "bool" ->
           IF bytes = << >> THEN Panic("index out of bounds")
           ELSE IF bytes[1] = 0 THEN [tag |-> "ok", text |-> <<48>>]
           ELSE IF bytes[1] = 1 THEN [tag |-> "ok", text |-> <<49>>]
           ELSE Panic("Unsupported value for boolean")
      [] inner = "Ip4" ->
           IF Len(bytes) # 4 THEN Panic("Ip4 type requires exactly 4 bytes of data")
           ELSE [tag |-> "ok",
                 text |-> UDecimal(<<bytes[1]>>) \o <<46>> \o UDecimal(<<bytes[2]>>) \o <<46>>
                          \o UDecimal(<<bytes[3]>>) \o <<46>> \o UDecimal(<<bytes[4]>>)]
      [] inner = "DummyConverter" -> [tag |-> "ok", text |-> << >>]
      [] inner = "InvalidConverter" -> Panic("Invalid kbin type converter called")

\* the bytes of the '.'-separated segments of an Ip4 text, each parsed as u8
RECURSIVE Ip4Segments(_)
Ip4Segments(parts) ==
    IF parts = << >> THEN [tag |-> "ok", b |-> << >>]
    ELSE LET num == ParseUnsigned(Head(parts), 1)
             rest == Ip4Segments(Tail(parts))
         IN IF num.tag # "ok" THEN num
            ELSE IF rest.tag # "ok" THEN rest
            ELSE [tag |-> "ok", b |-> num.b \o rest.b]

\* KbinWrapperType::to_kbin_bytes: the bytes appended for one lane's text
to_kbin_bytes(inner, text) ==
    CASE inner \in SignedInner -> ParseSigned(text, InnerWidth(inner))
      [] inner \in UnsignedInner -> ParseUnsigned(text, InnerWidth(inner))
      [] inner = "bool" ->
           IF text = <<48>> THEN [tag |-> "ok", b |-> <<0>>]
           ELSE IF text = <<49>> THEN [tag |-> "ok", b |-> <<1>>]
           ELSE Panic("Unsupported value for boolean")
      [] inner = "Ip4" -> Ip4Segments(Split(text, 46))
      [] inner = "DummyConverter" -> [tag |-> "ok", b |-> << >>]
      [] inner = "InvalidConverter" -> Panic("Invalid kbin type converter called")

\* the loop of parse_array: lanes i .. total_nodes - 1, each after a space
RECURSIVE parse_array_rest(_, _, _, _)
parse_array_rest(type, bytes, i, total_nodes) ==
    IF i >= total_nodes THEN [tag |-> "ok", text |-> << >>]
    ELSE IF (i + 1) * type.size > Len(bytes) THEN Panic("slice index out of range")
    ELSE LET lane == from_kbin_bytes(type.inner,
                                     SubSeq(bytes, i * type.size + 1, (i + 1) * type.size))
             rest == parse_array_rest(type, bytes, i + 1, total_nodes)
         IN IF lane.tag # "ok" THEN lane
            ELSE IF rest.tag # "ok" THEN rest
            ELSE [tag |-> "ok", text |-> <<32>> \o lane.text \o rest.text]

\* KbinType::parse_array: the first lane, then every other lane after a space
parse_array(type, bytes, arr_count) ==
    IF Len(bytes) < type.size THEN Panic("slice index out of range")
    ELSE LET head == from_kbin_bytes(type.inner, Take(bytes, type.size))
             rest == parse_array_rest(type, bytes, 1, type.count * arr_count)
         IN IF head.tag # "ok" THEN head
            ELSE IF rest.tag # "ok" THEN rest
            ELSE [tag |-> "ok", text |-> head.text \o rest.text]

\* KbinType::parse_bytes_inner (StandardType::parse_bytes dispatches to it)
parse_bytes(type, bytes) ==
    IF type.count = -1 THEN Panic("Tried to parse special type")
    ELSE IF type.size * type.count = 0 THEN Panic("attempt to divide by zero")
    ELSE LET arr_count == Len(bytes) \div (type.size * type.count)
         IN IF type.count = 1 /\ arr_count = 1 THEN from_kbin_bytes(type.inner, bytes)
            ELSE parse_array(type, bytes, arr_count)

\* KbinType::to_array: a stub that appends nothing
to_array(type, text, arr_count) == [tag |-> "ok", b |-> << >>]

\* KbinType::to_bytes_inner (StandardType::to_bytes dispatches to it): the bytes
\* appended to the output
to_bytes(type, text, arr_count) ==
    IF type.count = -1 THEN Panic("Tried to write special type")
    ELSE IF type.count = 1 THEN
        (IF arr_count = 1 THEN to_kbin_bytes(type.inner, text)
         ELSE to_array(type, text, arr_count))
    ELSE IF type.count > 1 THEN to_array(type, text, arr_count)
    ELSE [tag |-> "ok", b |-> << >>]

(***************************************************************************)
(* The sixbit name codec (sixbit.rs): a length byte, then the 6-bit codes  *)
(* of the characters packed most significant bit first, zero padded.       *)
(***************************************************************************)
\* the alphabet 0-9 A-Z a-z : _ in that order
CodeOfChar(ch) ==
    CASE ch \in 48..57 -> ch - 48
      [] ch \in 65..90 -> ch - 55
      [] ch \in 97..122 -> ch - 61
      [] ch = 58 -> 62
      [] ch = 95 -> 63
      [] OTHER -> -1

CharOfCode(c) ==
    CASE c \in 0..9 -> c + 48
      [] c \in 10..35 -> c + 55
      [] c \in 36..61 -> c + 61
      [] c = 62 -> 58
      [] c = 63 -> 95

\* the n lowest bits of v, most significant first
BitsOf(v, n) == [i \in 1..n |-> (v \div (2 ^ (n - i))) % 2]

RECURSIVE ValueOfBits(_)
ValueOfBits(bits) ==
    IF bits = << >> THEN 0
    ELSE 2 * ValueOfBits(SubSeq(bits, 1, Len(bits) - 1)) + bits[Len(bits)]

RECURSIVE Flatten(_)
Flatten(seqs) == IF seqs = << >> THEN << >> ELSE Head(seqs) \o Flatten(Tail(seqs))

\* the bits in groups of n, the last group zero padded
RECURSIVE Groups(_, _)
Groups(bits, n) ==
    IF bits = << >> THEN << >>
    ELSE IF Len(bits) < n THEN <<bits \o Zeros(n - Len(bits))>>
    ELSE <<Take(bits, n)>> \o Groups(Drop(bits, n), n)

SixbitLen(len) == (6 * len + 7) \div 8

\* pack_sixbit: the bytes written for a name
pack_sixbit(name) ==
    IF \E i \in DOMAIN name : CodeOfChar(name[i]) = -1 THEN Err("Sixbit")
    ELSE LET bits == Flatten([i \in DOMAIN name |-> BitsOf(CodeOfChar(name[i]), 6)])
             groups == Groups(bits, 8)
         IN [tag |-> "ok",
             b |-> <<Len(name)>> \o [i \in DOMAIN groups |-> ValueOfBits(groups[i])]]

\* unpack_sixbit: the name read at offset pos of buf, and the offset after it
unpack_sixbit(buf, pos) ==
    IF pos + 1 > Len(buf) THEN Err("Sixbit")
    ELSE LET len == buf[pos + 1]
             n == SixbitLen(len)
         IN IF pos + 1 + n > Len(buf) THEN Err("Sixbit")
            ELSE LET packed == SubSeq(buf, pos + 2, pos + 1 + n)
                     bits == Flatten([i \in DOMAIN packed |-> BitsOf(packed[i], 8)])
                     groups == Groups(bits, 6)
                 IN [tag |-> "ok",
                     name |-> [i \in 1..len |-> CharOfCode(ValueOfBits(groups[i]))],
                     pos |-> pos + 1 + n]

(***************************************************************************)
(* The header's collaborators (compression.rs, encoding_type.rs).          *)
(***************************************************************************)
SIG_UNCOMPRESSED == 69

\* Compression::from_byte
Compression_from_byte(b) ==
    IF b \in {SIG_COMPRESSED, SIG_UNCOMPRESSED} THEN [tag |-> "ok"]
    ELSE Err("UnknownCompression")

EncodingTags == {0, 32, 64, 96, 128, 160}
SHIFT_JIS == 128

\* EncodingType::from_byte
EncodingType_from_byte(b) ==
    IF b \in EncodingTags THEN [tag |-> "ok"] ELSE Err("UnknownEncoding")

\* EncodingType::decode_bytes: every codec of the table maps a byte below 128 to
\* the code point of that value; ISO-8859-1 does so for every byte, and a lone
\* byte of 128 or more is malformed in the others
decode_bytes(enc, data) ==
    IF \A i \in DOMAIN data : data[i] < 128 \/ enc = 64
    THEN [tag |-> "ok", text |-> data]
    ELSE Err("Encoding")

(***************************************************************************)
(* The data stream: the reads of the data buffer (lib.rs lines 52-158).    *)
(* `data` is the data buffer, `pos` its cursor position.                   *)
(***************************************************************************)
\* a big-endian u32.  A value of 2^31 or more is held as 2^31 - 1: every buffer
\* of the model is far shorter, so each comparison with a buffer length comes out
\* as it does for the value itself
BE32(b) ==
    IF b[1] >= 128 THEN 2147483647
    ELSE ((b[1] * 256 + b[2]) * 256 + b[3]) * 256 + b[4]

\* ReadBytesExt::read_u32::<BigEndian> on the cursor
read_u32(data, pos) ==
    IF 4 > Len(data) - pos THEN [tag |-> "eof"]
    ELSE [tag |-> "ok", v |-> BE32(SubSeq(data, pos + 1, pos + 4)), pos |-> pos + 4]

\* Read::read_exact of n bytes on the cursor
read_exact(data, pos, n) ==
    IF n > Len(data) - pos THEN [tag |-> "eof"]
    ELSE [tag |-> "ok", data |-> SubSeq(data, pos + 1, pos + n), pos |-> pos + n]

\* a plausible slip: no seek, the cursor stays where the read left it
realign_no_seek(pos) == pos

\* KbinXml::data_buf_realign_reads with size None: the position after the seeks
data_buf_realign_reads(pos) == IF pos % 4 = 0 THEN pos ELSE pos + (4 - (pos % 4))

\* KbinXml::data_buf_read: a u32 length, the payload, then the realignment
data_buf_read(data, pos) ==
    LET size == read_u32(data, pos)
    IN IF size.tag # "ok" THEN Err("DataReadSize")
       ELSE LET got == read_exact(data, size.pos, size.v)
            IN IF got.tag # "ok" THEN Err("DataRead")
               ELSE [tag |-> "ok", data |-> got.data,
                     pos |-> data_buf_realign_reads(got.pos)]

\* the loop of data_buf_read_str: index steps down over trailing NUL bytes; -1
\* stands for the subtraction below zero
RECURSIVE TrailingIndex(_, _)
TrailingIndex(data, index) ==
    IF index < Len(data) /\ data[index + 1] = 0
    THEN (IF index = 0 THEN -1 ELSE TrailingIndex(data, index - 1))
    ELSE index

\* KbinXml::data_buf_read_str.  The usize subtraction below zero panics in a build
\* with overflow checks; without them index wraps to usize::MAX, the loop ends and
\* index + 1 wraps to 0
data_buf_read_str(bld, enc, data, pos) ==
    LET got == data_buf_read(data, pos)
    IN IF got.tag # "ok" THEN got
       ELSE LET index == IF got.data = << >> THEN -1
                         ELSE TrailingIndex(got.data, Len(got.data) - 1)
            IN IF index = -1 /\ bld = "debug"
               THEN Panic("attempt to subtract with overflow")
               ELSE LET text == decode_bytes(enc, Take(got.data, index + 1))
                    IN IF text.tag # "ok" THEN text
                       ELSE [tag |-> "ok", text |-> text.text, pos |-> got.pos,
                             payload |-> got.data, passed |-> Take(got.data, index + 1)]

\* KbinXml::data_buf_get
data_buf_get(data, pos, size) ==
    LET got == read_exact(data, pos, size)
    IN IF got.tag # "ok" THEN Err("DataRead") ELSE got

\* a plausible slip: the cursor is seeked back and never moved past the narrow lanes
seek_back_only(old_pos, trailing) == old_pos

\* lines 134-143 of data_buf_get_aligned: after a narrow read the cursor goes back
\* to old_pos, and past `trailing`, realigned, when old_pos is behind it
seek_after_narrow(old_pos, trailing) ==
    IF old_pos < trailing THEN data_buf_realign_reads(trailing) ELSE old_pos

\* a plausible slip: a narrow lane is never given a fresh word
reseed_never(offset, pos) == offset

\* lines 96-101 of data_buf_get_aligned: a narrow lane that stands on a multiple
\* of 4 has used up its word and is moved to the cursor
reseed(offset, pos) == IF offset % 4 = 0 THEN pos ELSE offset

\* KbinXml::data_buf_get_aligned for a value of `size` bytes: the bytes read, the
\* cursor position and the two narrow offsets after the call
data_buf_get_aligned(data, pos, o1, o2, size) ==
    LET off1 == reseed(o1, pos)
        off2 == reseed(o2, pos)
        old_pos == pos
    IN CASE size = 1 ->
              LET got == read_exact(data, off1, 1)
              IN IF got.tag # "ok" THEN Err("DataReadOneByte")
                 ELSE [tag |-> "ok", data |-> got.data,
                       pos |-> seek_after_narrow(old_pos, Max(off1 + 1, off2)),
                       offset_1 |-> off1 + 1, offset_2 |-> off2]
         [] size = 2 ->
              LET got == read_exact(data, off2, 2)
              IN IF got.tag # "ok" THEN Err("DataReadTwoByte")
                 ELSE [tag |-> "ok", data |-> got.data,
                       pos |-> seek_after_narrow(old_pos, Max(off1, off2 + 2)),
                       offset_1 |-> off1, offset_2 |-> off2 + 2]
         [] OTHER ->
              LET got == read_exact(data, pos, size)
              IN IF got.tag # "ok" THEN Err("DataReadAligned")
                 ELSE [tag |-> "ok", data |-> got.data,
                       pos |-> data_buf_realign_reads(got.pos),
                       offset_1 |-> off1, offset_2 |-> off2]

(***************************************************************************)
(* Elements (minidom::Element): a name, attributes, text and children.     *)
(* Two fields record where an element came from and are no part of it:     *)
(* `raw`, the raw_id byte of the record that opened it, and `by_attr`, the *)
(* attribute names that Attribute records have set on it.                  *)
(***************************************************************************)
\* "__type", "__count", "__size"
TYPE_ATTR == <<95, 95, 116, 121, 112, 101>>
COUNT_ATTR == <<95, 95, 99, 111, 117, 110, 116>>
SIZE_ATTR == <<95, 95, 115, 105, 122, 101>>

\* Element::bare
Element_bare(name, raw) ==
    [name |-> name, attrs |-> {}, text |-> << >>, children |-> << >>,
     raw |-> raw, by_attr |-> {}]

\* Element::set_attr: the attributes are a map, a name has one value
set_attr(e, k, v) == [e EXCEPT !.attrs = {p \in @ : p[1] # k} \cup {<<k, v>>}]

\* Element::append_text_node; Element::text is the text nodes joined
append_text_node(e, t) == [e EXCEPT !.text = @ \o t]

\* Element::append_child
append_child(e, c) == [e EXCEPT !.children = Append(@, c)]

has_attr(e, k) == \E p \in e.attrs : p[1] = k

\* Element::attr
attr(e, k) == (CHOOSE p \in e.attrs : p[1] = k)[2]

\* the element as the caller sees it: without the two provenance fields
RECURSIVE Plain(_)
Plain(e) ==
    [name |-> e.name, attrs |-> e.attrs, text |-> e.text,
     children |-> [i \in DOMAIN e.children |-> Plain(e.children[i])]]

\* the element and all its descendants
RECURSIVE Elements(_)
Elements(e) == {e} \cup UNION {Elements(e.children[i]) : i \in DOMAIN e.children}

\* Display of a u32 / usize
RECURSIVE Decimal(_)
Decimal(n) == IF n < 10 THEN <<48 + n>> ELSE Decimal(n \div 10) \o <<48 + (n % 10)>>

\* "{:02x}" of a byte
HexDigit(d) == IF d < 10 THEN 48 + d ELSE 87 + d
Hex(data) == Flatten([i \in DOMAIN data |-> <<HexDigit(data[i] \div 16), HexDigit(data[i] % 16)>>])

(***************************************************************************)
(* from_binary_internal, lines 163-199: the header, len_node, the data     *)
(* buffer and len_data.  A len_node that puts the data buffer past the end *)
(* of the input panics on every path: the slice of line 189, or, from      *)
(* 2^32 - 8 on, the u32 addition of line 188 (with overflow checks) or its *)
(* wrapped sum below 8, an empty loop and the expect of line 316.          *)
(***************************************************************************)
read_header(inp) ==
    IF Len(inp) < 1 THEN Err("SignatureRead")
    ELSE IF inp[1] # SIGNATURE THEN Panic("assert_eq!(signature, SIGNATURE)")
    ELSE IF Len(inp) < 2 THEN Err("CompressionRead")
    ELSE IF inp[2] # SIG_COMPRESSED
         THEN Panic("assert_eq!(compress_byte, SIG_COMPRESSED)")
    ELSE IF Compression_from_byte(inp[2]).tag # "ok" THEN Compression_from_byte(inp[2])
    ELSE IF Len(inp) < 3 THEN Err("EncodingRead")
    ELSE IF Len(inp) < 4 THEN Err("EncodingNegationRead")
    ELSE IF EncodingType_from_byte(inp[3]).tag # "ok" THEN EncodingType_from_byte(inp[3])
    ELSE IF inp[4] # 255 - inp[3]
         THEN Panic("assert_eq!(encoding_negation, 0xFF ^ encoding_byte)")
    ELSE IF Len(inp) < 8 THEN Err("LenNodeRead")
    ELSE LET len_node == BE32(SubSeq(inp, 5, 8))
         IN IF len_node > Len(inp) - 8 THEN Panic("slice index starts out of range")
            ELSE LET len_data == read_u32(Drop(inp, len_node + 8), 0)
                 IN IF len_data.tag # "ok" THEN Err("LenDataRead")
                    ELSE [tag |-> "ok", encoding |-> inp[3],
                          data_buf_start |-> len_node + 8, data_pos |-> len_data.pos]

(***************************************************************************)
(* The state of the reader.                                                *)
(***************************************************************************)
NoOutcome == [tag |-> "none"]
NoConversion == [pc |-> "idle"]
NoCall == [pc |-> "idle"]

\* the data buffer: the input from data_buf_start on
DataBuf == Drop(input, data_buf_start)

\* the record at the node cursor
RawNodeType == input[node_pos + 1]
IsArray(raw) == (raw \div ARRAY_MASK) % 2 = 1
\* a plausible slip: the low seven bits, raw_node_type & 0x7F
low_seven_bits(raw) == raw % 128

\* raw_node_type & !64
NodeTypeOf(raw) == IF IsArray(raw) THEN raw - ARRAY_MASK ELSE raw
XmlType == from_u8(NodeTypeOf(RawNodeType))

\* the loop condition of line 204
InLoop == pc = "loop" /\ node_pos < data_buf_start

Top == stack[Len(stack)]
WithTop(e) == [stack EXCEPT ![Len(stack)] = e]

\* history of the node records: the raw_id byte, the id of the registry type that
\* line 209 selected for it (-1: none, from_u8 aborted) and is_array of line 206
Record ==
    [raw |-> RawNodeType, at |-> node_pos,
     id |-> IF XmlType.tag = "ok" THEN XmlType.type.id ELSE -1,
     is_array |-> IsArray(RawNodeType)]

\* history of the data section: a read that succeeded.  `from` and `to` bound the
\* bytes it consumed (to exclusive), `p` and `after` are the cursor before and
\* after it, `L` its u32 length prefix (-1: it has none), `rec` the number of the
\* record it was made for (0: the header)
Read(kind, from, to, p, L, after, rec) ==
    [kind |-> kind, from |-> from, to |-> to, p |-> p, L |-> L, after |-> after,
     rec |-> rec, payload |-> << >>, passed |-> << >>]

\* a data_buf_read_str that succeeded: the payload read and the bytes passed to
\* the codec
StrRead(p, val, rec) ==
    [kind |-> "str", from |-> p, to |-> p + 4 + Len(val.payload), p |-> p,
     L |-> Len(val.payload), after |-> val.pos, rec |-> rec,
     payload |-> val.payload, passed |-> val.passed]

\* a plausible slip: FileEnd goes round the loop as NodeEnd does
after_end_continue(konst) == "loop"

\* lines 220-224: NodeEnd continues the loop, FileEnd breaks out of it
after_end(konst) == IF konst = "NodeEnd" THEN "loop" ELSE "exit"

\* the call ends with an error value or aborts: nothing of the stack is returned
Fail(result) ==
    /\ pc' = "done"
    /\ outcome' = result
    /\ stack' = << >>
    /\ UNCHANGED <<input, phase, encoding, node_pos, data_buf_start, data_pos,
                   offset_1, offset_2, first, kb, reads, closed, de>>

\* KbinXml::new and lines 163-201
ReadHeader ==
    /\ pc = "start"
    /\ last_raw' = -1
    /\ UNCHANGED <<build, records>>
    /\ LET h == read_header(input)
       IN IF h.tag = "ok"
          THEN /\ pc' = "loop"
               /\ encoding' = h.encoding
               /\ data_buf_start' = h.data_buf_start
               /\ node_pos' = 8
               /\ data_pos' = h.data_pos
               /\ offset_1' = 0
               /\ offset_2' = 0
               /\ stack' = << >>
               /\ reads' = <<Read("len_data", 0, 4, 0, -1, h.data_pos, 0)>>
               /\ UNCHANGED <<input, phase, outcome, first, kb, closed, de>>
          ELSE Fail(h)

\* line 209 on an id outside the registry
UnknownRecord ==
    /\ InLoop
    /\ XmlType.tag = "panic"
    /\ last_raw' = RawNodeType
    /\ records' = Append(records, Record)
    /\ UNCHANGED build
    /\ Fail(XmlType)

\* lines 213-226: NodeEnd and FileEnd
EndRecord ==
    /\ InLoop
    /\ XmlType.tag = "ok"
    /\ XmlType.type.konst \in {"NodeEnd", "FileEnd"}
    /\ last_raw' = RawNodeType
    /\ records' = Append(records, Record)
    /\ UNCHANGED build
    /\ stack' = IF Len(stack) > 1
                THEN Take(stack, Len(stack) - 2)
                     \o <<append_child(stack[Len(stack) - 1], Top)>>
                ELSE stack
    /\ node_pos' = node_pos + 1
    /\ pc' = after_end(XmlType.type.konst)
    /\ closed' = IF XmlType.type.konst = "NodeEnd" /\ Len(stack) = 1
                 THEN [tag |-> "ok", tree |-> Plain(Top)]
                 ELSE closed
    /\ UNCHANGED <<input, phase, encoding, data_buf_start, data_pos,
                   offset_1, offset_2, outcome, first, kb, reads, de>>

\* lines 230-233: NodeStart
NodeStartRecord ==
    /\ InLoop
    /\ XmlType.tag = "ok"
    /\ XmlType.type.konst = "NodeStart"
    /\ last_raw' = RawNodeType
    /\ records' = Append(records, Record)
    /\ UNCHANGED build
    /\ LET name == unpack_sixbit(input, node_pos + 1)
       IN IF name.tag # "ok" THEN Fail(name)
          ELSE /\ stack' = Append(stack, Element_bare(name.name, RawNodeType))
               /\ node_pos' = name.pos
               /\ UNCHANGED <<input, phase, pc, encoding, data_buf_start, data_pos,
                              offset_1, offset_2, outcome, first, kb, reads, closed, de>>

\* the builds the run may still be: the build is settled by the first read whose
\* outcome depends on it
Builds == IF build = "any" THEN {"debug", "release"} ELSE {build}

\* whether data_buf_read_str at the data cursor depends on the build
BuildDecides ==
    data_buf_read_str("debug", encoding, DataBuf, data_pos)
        # data_buf_read_str("release", encoding, DataBuf, data_pos)

\* lines 230, 238-244: Attribute; with an empty stack nothing is read
AttributeRecord ==
    /\ InLoop
    /\ XmlType.tag = "ok"
    /\ XmlType.type.konst = "Attribute"
    /\ last_raw' = RawNodeType
    /\ records' = Append(records, Record)
    /\ LET name == unpack_sixbit(input, node_pos + 1)
       IN IF name.tag # "ok" THEN Fail(name) /\ UNCHANGED build
          ELSE IF stack = << >>
          THEN /\ node_pos' = name.pos
               /\ UNCHANGED <<build, input, phase, pc, encoding, data_buf_start,
                              data_pos, offset_1, offset_2, stack, outcome, first, kb,
                              reads, closed, de>>
          ELSE \E bld \in Builds :
               LET val == data_buf_read_str(bld, encoding, DataBuf, data_pos)
               IN /\ build' = IF BuildDecides THEN bld ELSE build
                  /\ IF val.tag # "ok" THEN Fail(val)
                     ELSE /\ stack' = WithTop([set_attr(Top, name.name, val.text)
                                                 EXCEPT !.by_attr = @ \cup {name.name}])
                          /\ node_pos' = name.pos
                          /\ data_pos' = val.pos
                          /\ reads' = Append(reads,
                                         StrRead(data_pos, val, Len(records) + 1))
                          /\ UNCHANGED <<input, phase, pc, encoding, data_buf_start,
                                         offset_1, offset_2, outcome, first, kb, closed, de>>

\* lines 230, 236, 249-255: String
StringRecord ==
    /\ InLoop
    /\ XmlType.tag = "ok"
    /\ XmlType.type.konst = "String"
    /\ last_raw' = RawNodeType
    /\ records' = Append(records, Record)
    /\ LET name == unpack_sixbit(input, node_pos + 1)
       IN IF name.tag # "ok" THEN Fail(name) /\ UNCHANGED build
          ELSE \E bld \in Builds :
               LET val == data_buf_read_str(bld, encoding, DataBuf, data_pos)
               IN /\ build' = IF BuildDecides THEN bld ELSE build
                  /\ IF val.tag # "ok" THEN Fail(val)
                     ELSE /\ stack' = Append(stack,
                                         append_text_node(
                                           set_attr(Element_bare(name.name, RawNodeType),
                                                    TYPE_ATTR, XmlType.type.name),
                                           val.text))
                          /\ node_pos' = name.pos
                          /\ data_pos' = val.pos
                          /\ reads' = Append(reads,
                                         StrRead(data_pos, val, Len(records) + 1))
                          /\ UNCHANGED <<input, phase, pc, encoding, data_buf_start,
                                         offset_1, offset_2, outcome, first, kb, closed, de>>

\* a plausible slip: the array count is computed and never stored
array_attr_dropped(e, type, is_array, len) == e

\* lines 263-266: __count, the array length, on the element of an array of a type
\* with a fixed footprint; `len` is the u32 read from the data buffer
array_attr(e, type, is_array, len) ==
    IF is_array /\ type.count # -1
    THEN set_attr(e, COUNT_ATTR, Decimal(len \div (type.size * type.count)))
    ELSE e

\* history: the read that read_value made at cursor `pos`, `got` its result and
\* `len` the length prefix of a Binary or an array
ValueRead(pos, type, is_array, len, got, rec) ==
    LET node_size == type.size * type.count
    IN IF type.count = -1 \/ is_array
       THEN Read("var", pos, pos + 4 + Len(got.data), pos, len, got.pos, rec)
       ELSE IF node_size = 1
       THEN Read("narrow", got.offset_1 - 1, got.offset_1, pos, -1, got.pos, rec)
       ELSE IF node_size = 2
       THEN Read("narrow", got.offset_2 - 2, got.offset_2, pos, -1, got.pos, rec)
       ELSE Read("wide", pos, pos + node_size, pos, -1, got.pos, rec)

\* lines 256-306: a Binary or a scalar / vector value read into the element e
read_value(data, pos, o1, o2, type, is_array, e, rec) ==
    LET typed == set_attr(e, TYPE_ATTR, type.name)
        node_size == type.size * type.count
        len == read_u32(data, pos)
        counted == array_attr(typed, type, is_array, len.v)
        size == IF type.count = -1 THEN len.v ELSE node_size * (len.v \div node_size)
        got == IF type.count = -1 \/ is_array
               THEN (IF len.tag # "ok"
                     THEN Err(IF type.count = -1 THEN "BinaryLengthRead"
                              ELSE "ArrayLengthRead")
                     ELSE LET d == data_buf_get(data, len.pos, size)
                          IN IF d.tag # "ok" THEN d
                             ELSE [tag |-> "ok", data |-> d.data,
                                   pos |-> data_buf_realign_reads(d.pos),
                                   offset_1 |-> o1, offset_2 |-> o2])
               ELSE data_buf_get_aligned(data, pos, o1, o2, node_size)
    IN IF got.tag # "ok" THEN got
       ELSE IF type.konst = "Binary"
       THEN [tag |-> "ok", pos |-> got.pos, offset_1 |-> got.offset_1,
             offset_2 |-> got.offset_2,
             read |-> ValueRead(pos, type, is_array, len.v, got, rec),
             elem |-> append_text_node(
                        set_attr(counted, SIZE_ATTR, Decimal(Len(got.data))),
                        Hex(got.data))]
       ELSE LET inner_value == parse_bytes(type, got.data)
            IN IF inner_value.tag # "ok" THEN inner_value
               ELSE [tag |-> "ok", pos |-> got.pos, offset_1 |-> got.offset_1,
                     offset_2 |-> got.offset_2,
                     read |-> ValueRead(pos, type, is_array, len.v, got, rec),
                     elem |-> append_text_node(counted, inner_value.text)]

\* lines 230, 236, 256-306: Binary and the scalar and vector types
ValueRecord ==
    /\ InLoop
    /\ UNCHANGED build
    /\ XmlType.tag = "ok"
    /\ XmlType.type.konst \notin {"NodeEnd", "FileEnd", "NodeStart", "Attribute", "String"}
    /\ last_raw' = RawNodeType
    /\ records' = Append(records, Record)
    /\ LET name == unpack_sixbit(input, node_pos + 1)
       IN IF name.tag # "ok" THEN Fail(name)
          ELSE LET val == read_value(DataBuf, data_pos, offset_1, offset_2, XmlType.type,
                                     IsArray(RawNodeType),
                                     Element_bare(name.name, RawNodeType),
                                     Len(records) + 1)
               IN IF val.tag # "ok" THEN Fail(val)
                  ELSE /\ stack' = Append(stack, val.elem)
                       /\ node_pos' = name.pos
                       /\ data_pos' = val.pos
                       /\ offset_1' = val.offset_1
                       /\ offset_2' = val.offset_2
                       /\ reads' = Append(reads, val.read)
                       /\ UNCHANGED <<input, phase, pc, encoding, data_buf_start,
                                      outcome, first, kb, closed, de>>

\* lines 312-316, after the loop ended or FileEnd broke out of it
Return ==
    /\ pc = "exit" \/ (pc = "loop" /\ node_pos >= data_buf_start)
    /\ UNCHANGED <<last_raw, build, records>>
    /\ IF stack = << >> THEN Fail(Panic("Stack must have root node"))
       ELSE /\ pc' = "done"
            /\ outcome' = [tag |-> "ok", tree |-> stack[1]]
            /\ stack' = << >>
            /\ UNCHANGED <<input, phase, encoding, node_pos, data_buf_start,
                           data_pos, offset_1, offset_2, first, kb, reads, closed, de>>

(***************************************************************************)
(* The writer: write_node and to_binary_internal.                          *)
(***************************************************************************)
U32Bytes(n) == <<(n \div 16777216) % 256, (n \div 65536) % 256, (n \div 256) % 256, n % 256>>

\* node_type.id | array_mask
BitOr64(id) == IF IsArray(id) THEN id ELSE id + ARRAY_MASK

KonstType(k) == CHOOSE t \in StandardTypes : t.konst = k

\* a plausible slip: NodeEnd written as its plain id
node_end_plain == KonstType("NodeEnd").id

\* line 370: StandardType::NodeEnd.id | 64
node_end == BitOr64(KonstType("NodeEnd").id)

RECURSIVE write_node(_)
RECURSIVE write_children(_)

\* the for loop of write_node over the children
write_children(children) ==
    IF children = << >> THEN [tag |-> "ok", b |-> << >>]
    ELSE LET head == write_node(Head(children))
         IN IF head.tag # "ok" THEN head
            ELSE LET rest == write_children(Tail(children))
                 IN IF rest.tag # "ok" THEN rest
                    ELSE [tag |-> "ok", b |-> head.b \o rest.b]

\* KbinXml::write_node: the bytes appended to the node buffer; nothing is ever
\* appended to the data buffer
write_node(e) ==
    LET node_type == IF has_attr(e, TYPE_ATTR) THEN from_name(attr(e, TYPE_ATTR))
                     ELSE [tag |-> "ok",
                           type |-> IF Len(e.text) = 0 THEN KonstType("NodeStart")
                                    ELSE KonstType("String")]
        count == IF has_attr(e, COUNT_ATTR) THEN ParseSigned(attr(e, COUNT_ATTR), 1)
                 ELSE [tag |-> "ok"]
        raw == IF has_attr(e, COUNT_ATTR) THEN BitOr64(node_type.type.id)
               ELSE node_type.type.id
        name == pack_sixbit(e.name)
    IN IF node_type.tag # "ok" THEN node_type
       ELSE IF count.tag # "ok" THEN count
       ELSE IF name.tag # "ok" THEN name
       ELSE LET kids == write_children(e.children)
            IN IF kids.tag # "ok" THEN kids
               ELSE [tag |-> "ok",
                     b |-> <<raw>> \o name.b \o kids.b
                           \o <<node_end>>]

\* KbinXml::to_binary_internal
to_binary_internal(e) ==
    LET nodes == write_node(e)
    IN IF nodes.tag # "ok" THEN nodes
       ELSE LET node_buf == nodes.b \o <<BitOr64(KonstType("FileEnd").id)>>
                data_buf == << >>
            IN [tag |-> "ok",
                b |-> <<SIGNATURE, SIG_COMPRESSED, SHIFT_JIS, 255 - SHIFT_JIS>>
                      \o U32Bytes(Len(node_buf)) \o node_buf
                      \o U32Bytes(Len(data_buf)) \o data_buf]

\* to_binary on the tree that from_binary returned, and from_binary on its output
ToBinary ==
    /\ phase = 1
    /\ pc = "done"
    /\ outcome.tag = "ok"
    /\ phase' = 2
    /\ first' = outcome
    /\ LET out == to_binary_internal(outcome.tree)
       IN IF out.tag = "ok"
          THEN /\ input' = out.b
               /\ pc' = "start"
               /\ outcome' = NoOutcome
          ELSE /\ pc' = "done"
               /\ outcome' = out
               /\ UNCHANGED input
    /\ records' = << >>
    /\ reads' = << >>
    /\ closed' = NoOutcome
    /\ UNCHANGED <<build, encoding, node_pos, data_buf_start, data_pos, offset_1,
                   offset_2, stack, last_raw, kb, de>>

(***************************************************************************)
(* The inputs of from_binary.                                              *)
(***************************************************************************)
SeqsUpTo(S, n) == UNION {[1..k -> S] : k \in 0..n}

\* a node record: the raw_id byte and the packed name
Rec(raw, name) == <<raw>> \o pack_sixbit(name).b

\* a node record and the words the data section holds for it
Item(rec, words) == [rec |-> rec, data |-> words]

\* the items a container is made of
ItemSet ==
    { Item(Rec(1, <<65>>), << >>),                            \* NodeStart "A"
      Item(Rec(65, <<66>>), << >>),                           \* NodeStart|64 "B"
      Item(Rec(46, COUNT_ATTR), <<0, 0, 0, 1, 55, 0, 0, 0>>), \* Attribute "__count" = "7"
      Item(Rec(11, <<115>>), <<0, 0, 0, 3, 104, 105, 0, 0>>), \* String "s" = "hi"
      Item(Rec(75, <<115>>), <<0, 0, 0, 0>>),                 \* String|64 "s", empty
      Item(Rec(10, <<98>>), <<0, 0, 0, 2, 171, 1, 0, 0>>),    \* Binary "b" = ab01
      Item(Rec(3, <<99>>), <<7, 1, 0, 2>>),                   \* U8 "c" = 7
      Item(Rec(67, <<99>>), <<0, 0, 0, 2, 1, 2, 0, 0>>),      \* U8|64 "c" = 1 2
      Item(Rec(5, <<100>>), <<0, 3, 0, 0>>),                  \* U16 "d" = 3
      Item(Rec(11, <<115>>), <<0, 0, 0, 2, 0, 0, 0, 0>>),     \* String "s", two NULs
      Item(Rec(69, <<100>>),                                  \* U16|64 "d", 5 bytes
           <<0, 0, 0, 5, 0, 1, 0, 2, 9, 0, 0, 0>>),
      Item(Rec(7, <<101>>), <<0, 0, 0, 2>>),                  \* U32 "e" = 2
      Item(Rec(26, <<102>>), <<255, 0, 1, 0>>),               \* 3s8 "f" = -1 0 1
      Item(<<254>>, << >>),                                   \* NodeEnd|64
      Item(<<255>>, << >>),                                   \* FileEnd|64
      Item(<<47>>, << >>) }                                   \* no type 47

Programs == SeqsUpTo(ItemSet, MaxRecords)
NodesOf(p) == Flatten([i \in DOMAIN p |-> p[i].rec])
DataOf(p) == Flatten([i \in DOMAIN p |-> p[i].data])

Header(sig, comp, enc, neg) == <<sig, comp, enc, neg>>

\* the container of a node section and a data section
Container(header, nodes, data) ==
    header \o U32Bytes(Len(nodes)) \o nodes \o U32Bytes(Len(data)) \o data

GoodHeader == Header(SIGNATURE, SIG_COMPRESSED, SHIFT_JIS, 255 - SHIFT_JIS)

WellFramed == {Container(GoodHeader, NodesOf(p), DataOf(p)) : p \in Programs}

\* <A><c __type="u8">7</c></A>
SampleNodes == Rec(1, <<65>>) \o Rec(3, <<99>>) \o <<254, 254, 255>>
SampleData == <<7, 0, 0, 0>>
Sample == Container(GoodHeader, SampleNodes, SampleData)

\* <A><B><c __type="u8">7</c></B><d __type="u16">3</d></A>
NestedNodes ==
    Rec(1, <<65>>) \o Rec(1, <<66>>) \o Rec(3, <<99>>) \o <<254, 254>>
        \o Rec(5, <<100>>) \o <<254, 254, 255>>
NestedData == <<7, 0, 0, 0, 0, 3, 0, 0>>
Nested == Container(GoodHeader, NestedNodes, NestedData)

\* six values in a row: u8, u16, u32, a string, u8, u16; the second u8 and u16
\* lie in the words of the first
MixedNodes ==
    Rec(3, <<99>>) \o Rec(5, <<100>>) \o Rec(7, <<101>>) \o Rec(11, <<115>>)
        \o Rec(3, <<99>>) \o Rec(5, <<100>>) \o <<255>>
MixedData == <<7, 1, 0, 0, 0, 3, 0, 4, 0, 0, 0, 2, 0, 0, 0, 3, 104, 105, 0, 0>>
Mixed == Container(GoodHeader, MixedNodes, MixedData)

\* every header over the sample body
Headers ==
    {Container(Header(sig, comp, enc, neg), SampleNodes, SampleData) :
        sig \in {SIGNATURE, 0}, comp \in {SIG_COMPRESSED, SIG_UNCOMPRESSED, 0},
        enc \in {SHIFT_JIS, 160, 1}, neg \in {255 - SHIFT_JIS, 255 - 160, 254, 0}}

\* every prefix of the sample: an input shorter than its sections require
Truncated == {Take(Sample, k) : k \in 0..Len(Sample)}

Inputs == WellFramed \cup Headers \cup Truncated \cup {Nested, Mixed}

Init ==
    /\ build = "any"
    /\ input \in Inputs
    /\ phase = 1
    /\ pc = "start"
    /\ encoding = 0
    /\ node_pos = 0
    /\ data_buf_start = 0
    /\ data_pos = 0
    /\ offset_1 = 0
    /\ offset_2 = 0
    /\ stack = << >>
    /\ outcome = NoOutcome
    /\ first = NoOutcome
    /\ last_raw = -1
    /\ kb = NoConversion
    /\ records = << >>
    /\ reads = << >>
    /\ closed = NoOutcome
    /\ de = NoCall

Next ==
    \/ ReadHeader
    \/ UnknownRecord
    \/ EndRecord
    \/ NodeStartRecord
    \/ AttributeRecord
    \/ StringRecord
    \/ ValueRecord
    \/ Return
    \/ ToBinary

Spec == Init /\ [][Next]_vars

(***************************************************************************)
(* The byte-level conversions on their own: parse_bytes on a payload, then *)
(* to_bytes on the text it returned.                                       *)
(***************************************************************************)
\* the types whose lanes are integers, booleans or an Ip4
ByteTypes ==
    {t \in StandardTypes : t.count >= 1 /\ t.inner \in IntegerInner \cup {"bool", "Ip4"}}

\* lanes of `size` bytes: 0, -1 / the maximum, 1, the signed minimum and maximum,
\* and 1 2 3 ...
LanePatterns(size) ==
    { Zeros(size),
      [i \in 1..size |-> 255],
      [i \in 1..size |-> IF i = size THEN 1 ELSE 0],
      [i \in 1..size |-> IF i = 1 THEN 128 ELSE 0],
      [i \in 1..size |-> IF i = 1 THEN 127 ELSE 255],
      [i \in 1..size |-> i] }

\* a payload of `lanes` lanes, p and q in turn
Payload(lanes, p, q) == Flatten([i \in 1..lanes |-> IF i % 2 = 1 THEN p ELSE q])

\* a type, an array count n and a payload of size * count * n bytes
Conversions ==
    UNION {{[pc |-> "init", type |-> t, n |-> n,
             bytes |-> Payload(t.count * n, p, q),
             text |-> NoOutcome, out |-> NoOutcome] :
               n \in 0..MaxArr, p \in LanePatterns(t.size), q \in LanePatterns(t.size)} :
           t \in ByteTypes}

InitBytes ==
    /\ kb \in Conversions
    /\ build = "any"
    /\ input = << >>
    /\ phase = 0
    /\ pc = "idle"
    /\ encoding = 0
    /\ node_pos = 0
    /\ data_buf_start = 0
    /\ data_pos = 0
    /\ offset_1 = 0
    /\ offset_2 = 0
    /\ stack = << >>
    /\ outcome = NoOutcome
    /\ first = NoOutcome
    /\ last_raw = -1
    /\ records = << >>
    /\ reads = << >>
    /\ closed = NoOutcome
    /\ de = NoCall

\* StandardType::parse_bytes on the payload
ParseBytes ==
    /\ kb.pc = "init"
    /\ kb' = [kb EXCEPT !.pc = "parsed", !.text = parse_bytes(kb.type, kb.bytes)]
    /\ UNCHANGED <<build, input, phase, pc, encoding, node_pos, data_buf_start, data_pos,
                   offset_1, offset_2, stack, outcome, first, last_raw,
                   records, reads, closed, de>>

\* StandardType::to_bytes on the text, into an empty output
ToBytes ==
    /\ kb.pc = "parsed"
    /\ kb.text.tag = "ok"
    /\ kb' = [kb EXCEPT !.pc = "written",
                        !.out = to_bytes(kb.type, kb.text.text, kb.n)]
    /\ UNCHANGED <<build, input, phase, pc, encoding, node_pos, data_buf_start, data_pos,
                   offset_1, offset_2, stack, outcome, first, last_raw,
                   records, reads, closed, de>>

NextBytes ==
    \/ ParseBytes
    \/ ToBytes

SpecBytes == InitBytes /\ [][NextBytes]_vars


(***************************************************************************)
(* Struct::next_key_seed (de/structure.rs, lines 24-48) over the node      *)
(* records its Deserializer still has to give.  The Deserializer is in     *)
(* de/mod.rs: of read_node only its result matters here, the type of the   *)
(* next record or an error; the seed's deserialize is a call that succeeds *)
(* or fails and may read into the stream.                                  *)
(***************************************************************************)
\* what read_node returns for one record: a node type, or "error" when the record
\* cannot be read
NodeResults == {"NodeStart", "NodeEnd", "FileEnd", "Attribute", "String", "U8", "error"}

\* Deserializer::read_node: the type of the record at pos; an error on a record
\* that cannot be read and at the end of the stream
read_node(nodes, pos) ==
    IF pos >= Len(nodes) \/ nodes[pos + 1] = "error" THEN Err("NodeTypeRead")
    ELSE [tag |-> "ok", node_type |-> nodes[pos + 1]]

\* a plausible slip: the closing record is expected after every key
needs_end_always(node_type) == TRUE

\* line 40: every record but NodeStart is closed right after its key
needs_end(node_type) == node_type # "NodeStart"

\* the state before a call: the stream, how far it has been read, and what the
\* call has done so far
Calls ==
    {[pc |-> "read", nodes |-> n, pos |-> 0, own |-> 0, node_type |-> "none",
      key |-> "none", closing |-> "none", result |-> NoOutcome] :
        n \in SeqsUpTo(NodeResults, MaxNodes)}

InitStruct ==
    /\ de \in Calls
    /\ kb = NoConversion
    /\ build = "any"
    /\ input = << >>
    /\ phase = 0
    /\ pc = "idle"
    /\ encoding = 0
    /\ node_pos = 0
    /\ data_buf_start = 0
    /\ data_pos = 0
    /\ offset_1 = 0
    /\ offset_2 = 0
    /\ stack = << >>
    /\ outcome = NoOutcome
    /\ first = NoOutcome
    /\ last_raw = -1
    /\ records = << >>
    /\ reads = << >>
    /\ closed = NoOutcome

\* everything but the call
reader_vars ==
    <<build, input, phase, pc, encoding, node_pos, data_buf_start, data_pos, offset_1,
      offset_2, stack, outcome, first, last_raw, kb, records, reads, closed>>

\* lines 30-36: the first read_node; NodeEnd is the end of the map
ReadNode ==
    /\ de.pc = "read"
    /\ LET node == read_node(de.nodes, de.pos)
       IN de' = IF node.tag # "ok"
                THEN [de EXCEPT !.pc = "done", !.own = @ + 1, !.result = node]
                ELSE IF node.node_type = "NodeEnd"
                THEN [de EXCEPT !.pc = "done", !.own = @ + 1, !.pos = @ + 1,
                                !.node_type = node.node_type,
                                !.result = [tag |-> "ok", value |-> "None"]]
                ELSE [de EXCEPT !.pc = "key", !.own = @ + 1, !.pos = @ + 1,
                                !.node_type = node.node_type]
    /\ UNCHANGED reader_vars

\* lines 38-40: seed.deserialize, which succeeds or fails and reads on in the
\* stream by `used` records of its own; a NodeStart key is the result as it is
DeserializeKey ==
    /\ de.pc = "key"
    /\ \E ok \in BOOLEAN, used \in 0..1 :
          /\ de.pos + used <= Len(de.nodes)
          /\ de' = IF ~ok
                   THEN [de EXCEPT !.pc = "done", !.key = "err", !.pos = @ + used,
                                   !.result = Err("seed.deserialize")]
                   ELSE IF needs_end(de.node_type)
                   THEN [de EXCEPT !.pc = "end", !.key = "ok", !.pos = @ + used]
                   ELSE [de EXCEPT !.pc = "done", !.key = "ok", !.pos = @ + used,
                                   !.result = [tag |-> "ok", value |-> "Some"]]
    /\ UNCHANGED reader_vars

\* lines 41-47: the end node is consumed and checked
ReadEndNode ==
    /\ de.pc = "end"
    /\ LET node == read_node(de.nodes, de.pos)
       IN de' = IF node.tag # "ok"
                THEN [de EXCEPT !.pc = "done", !.own = @ + 1, !.closing = "error",
                                !.result = node]
                ELSE IF node.node_type # "NodeEnd"
                THEN [de EXCEPT !.pc = "done", !.own = @ + 1, !.pos = @ + 1,
                                !.closing = node.node_type,
                                !.result = [tag |-> "err", kind |-> "TypeMismatch",
                                            expected |-> "NodeEnd",
                                            found |-> node.node_type]]
                ELSE [de EXCEPT !.pc = "done", !.own = @ + 1, !.pos = @ + 1,
                                !.closing = node.node_type,
                                !.result = [tag |-> "ok", value |-> "Some"]]
    /\ UNCHANGED reader_vars

NextStruct ==
    \/ ReadNode
    \/ DeserializeKey
    \/ ReadEndNode

SpecStruct == InitStruct /\ [][NextStruct]_vars
(***************************************************************************)
(* The claims.                                                             *)
(***************************************************************************)
Returned == pc = "done" /\ outcome.tag = "ok"

\* C1: for every tree t that from_binary returned, from_binary(to_binary(t))
\* succeeds and returns a tree equal to t in names, attributes, text and children.
TreeRoundTrip ==
    (phase = 2 /\ pc = "done") =>
        (outcome.tag = "ok" /\ Plain(outcome.tree) = Plain(first.tree))

\* the reader is past the header and no operation has failed
Reading == pc \in {"loop", "exit", "done"} /\ outcome.tag \in {"none", "ok"}

\* C2: after every completed operation on the data stream (the len_data read, a
\* length-prefixed read, an array or binary read, an aligned value read) the cursor
\* of the data buffer is at a multiple of 4 from the start of the data section.
CursorAligned == Reading => data_pos % 4 = 0

\* both narrow lanes are in use, and a wider read has moved the cursor on: a
\* 1-byte, a 2-byte and a wide or variable-length read have completed
CursorAlignedWitness ==
    /\ pc = "loop"
    /\ offset_1 % 4 = 1
    /\ offset_2 % 4 = 2
    /\ data_pos > Max(offset_1, offset_2) + 3

\* C3: after every completed operation on the data stream, offset_1 and offset_2
\* are both at most the cursor position of the data buffer.
CursorOrdering == Reading => (offset_1 <= data_pos /\ offset_2 <= data_pos)

\* both narrow lanes hold unread bytes below the cursor
CursorOrderingWitness ==
    /\ pc = "loop"
    /\ offset_1 % 4 # 0
    /\ offset_2 % 4 # 0
    /\ offset_1 < data_pos
    /\ offset_2 < data_pos
    /\ offset_1 # offset_2

\* the header of the input breaks one of the three header rules
BadHeader ==
    /\ Len(input) >= 4
    /\ \/ input[1] # SIGNATURE
       \/ input[2] \notin {SIG_COMPRESSED, SIG_UNCOMPRESSED}
       \/ input[4] # 255 - input[3]

\* C4: when the signature is not 0xA0, or the compression byte is neither 0x42 nor
\* 0x45, or the fourth byte is not 0xFF XOR the encoding byte, from_binary returns
\* a HeaderValue error.
HeaderValueError ==
    (phase = 1 /\ pc = "done" /\ BadHeader) => outcome = Err("HeaderValue")

\* C5: a well-formed container whose compression byte is 0x45 gets past the header:
\* the node section is decoded.
UncompressedAccepted ==
    (phase = 1 /\ pc # "start" /\ Len(input) >= 12 /\ ~BadHeader
       /\ input[2] = SIG_UNCOMPRESSED /\ input[3] \in EncodingTags)
        => (pc = "loop" \/ node_pos >= 8)

\* C6: a node record whose type id, the array flag removed, is not in the registry
\* makes from_binary return an InvalidNodeType error.
UnknownTypeError ==
    (pc = "done" /\ last_raw # -1 /\ NodeTypeOf(last_raw) \notin TypeIds)
        => outcome = Err("InvalidNodeType")

\* C7: from_binary ends on every input with a tree or an error value, never with an
\* abort.
DecodeTotal == (phase = 1 /\ pc = "done") => outcome.tag \in {"ok", "err"}

\* C8: for every scalar and fixed-vector type and every payload of size * count
\* bytes that parse_bytes accepts, to_bytes of the text with array count 1 appends
\* exactly the payload.
ByteRoundTrip ==
    (kb.pc = "written" /\ kb.n = 1) => kb.out = [tag |-> "ok", b |-> kb.bytes]

\* decimal digits with no leading zero
CanonicalDigits(tok) ==
    /\ tok # << >>
    /\ \A i \in DOMAIN tok : IsDigit(tok[i])
    /\ Len(tok) > 1 => tok[1] # 48

\* tok is the decimal rendering of the big-endian integer `lane`: evaluating its
\* digits gives the lane, or its two's complement after a minus sign
Renders(tok, lane, signed) ==
    IF signed /\ lane[1] >= 128
    THEN /\ tok # << >>
         /\ tok[1] = 45
         /\ CanonicalDigits(Tail(tok))
         /\ ParseDigits(Tail(tok), Zeros(Len(lane))) = [tag |-> "ok", b |-> Negate(lane)]
    ELSE /\ CanonicalDigits(tok)
         /\ ParseDigits(tok, Zeros(Len(lane))) = [tag |-> "ok", b |-> lane]

\* the text holds one rendering per lane of the payload, single spaces between
RendersLanes(text, type, n, payload) ==
    IF n = 0 THEN text = << >>
    ELSE LET toks == Split(text, 32)
         IN /\ Len(toks) = type.count * n
            /\ \A i \in DOMAIN toks :
                 Renders(toks[i],
                         SubSeq(payload, (i - 1) * type.size + 1, i * type.size),
                         type.inner \in SignedInner)

\* C9: for every integer type and every payload of size * count * n bytes, n >= 0,
\* parse_bytes returns count * n tokens separated by single spaces (the empty text
\* when n = 0), token i the decimal rendering of lane i read big-endian.
ParseBytesRenders ==
    (kb.pc # "init" /\ kb.pc # "idle" /\ kb.type.inner \in IntegerInner) =>
        (kb.text.tag = "ok" /\ RendersLanes(kb.text.text, kb.type, kb.n, kb.bytes))

\* C10 as claimed: an element of a returned tree has __count exactly when bit 6 of
\* the raw_id of the record that opened it was set, whatever the record type.
CountIffArrayBit ==
    Returned => \A e \in Elements(outcome.tree) :
                    has_attr(e, COUNT_ATTR) <=> IsArray(e.raw)

\* C10 as amended: an element of a returned tree has __count exactly when the
\* record that opened it had bit 6 set and a scalar or fixed-vector type (registry
\* count >= 1), or an Attribute record named __count was applied to the element.
CountIffArrayOfFixedType ==
    Returned => \A e \in Elements(outcome.tree) :
                    has_attr(e, COUNT_ATTR) <=>
                        \/ IsArray(e.raw) /\ TypeOfId(NodeTypeOf(e.raw)).count >= 1
                        \/ COUNT_ATTR \in e.by_attr

\* a returned tree holds an array element with its __count, and an element opened
\* with bit 6 set that has none
CountWitness ==
    /\ phase = 1
    /\ Returned
    /\ \E e \in Elements(outcome.tree) :
          has_attr(e, COUNT_ATTR) /\ IsArray(e.raw) /\ COUNT_ATTR \notin e.by_attr
    /\ \E e \in Elements(outcome.tree) : ~has_attr(e, COUNT_ATTR) /\ IsArray(e.raw)


\* the smallest multiple of 4 that is at least n
Align4(n) == CHOOSE m \in n..(n + 3) : m % 4 = 0

\* C11: every string, binary and array read that started with the cursor at p, a
\* multiple of 4, with a length prefix L that fits the rest of the data section,
\* left the cursor at the smallest multiple of 4 that is at least p + 4 + L.
VariableReadPosition ==
    \A i \in DOMAIN reads :
        (/\ reads[i].kind \in {"str", "var"}
         /\ reads[i].p % 4 = 0
         /\ reads[i].L <= Len(DataBuf) - (reads[i].p + 4))
            => reads[i].after = Align4(reads[i].p + 4 + reads[i].L)

\* the node buffer of a container
NodeBufOf(inp) == SubSeq(inp, 9, 8 + BE32(SubSeq(inp, 5, 8)))

Token(kind, type, name) == [kind |-> kind, type |-> type, name |-> name]

\* the node buffer from `pos` on, record by record: "open" for a type byte with its
\* name, "end" for the byte 254, "file_end" for the byte 255, "bad" for anything
\* else, where the reading stops
RECURSIVE Tokens(_, _)
Tokens(buf, pos) ==
    IF pos >= Len(buf) THEN << >>
    ELSE IF buf[pos + 1] = 254 THEN <<Token("end", << >>, << >>)>> \o Tokens(buf, pos + 1)
    ELSE IF buf[pos + 1] = 255
    THEN <<Token("file_end", << >>, << >>)>> \o Tokens(buf, pos + 1)
    ELSE IF NodeTypeOf(buf[pos + 1]) \notin TypeIds \ {190, 191}
    THEN <<Token("bad", << >>, << >>)>>
    ELSE LET name == unpack_sixbit(buf, pos + 1)
         IN IF name.tag # "ok" THEN <<Token("bad", << >>, << >>)>>
            ELSE <<Token("open", TypeOfId(NodeTypeOf(buf[pos + 1])).name, name.name)>>
                     \o Tokens(buf, name.pos)

\* the records of an element in document order: its own, those of its children,
\* one end
RECURSIVE Nesting(_)
Nesting(e) ==
    <<Token("open",
            IF has_attr(e, TYPE_ATTR) THEN attr(e, TYPE_ATTR)
            ELSE IF e.text = << >> THEN KonstType("NodeStart").name
            ELSE KonstType("String").name,
            e.name)>>
        \o Flatten([i \in DOMAIN e.children |-> Nesting(e.children[i])])
        \o <<Token("end", << >>, << >>)>>

\* C12: the node buffer that to_binary produced for a tree holds, for each element
\* in document order, its record, the records of its children and one NodeEnd byte
\* 254, and after the root's NodeEnd one FileEnd byte 255, which ends it.
WrittenNodeBuffer ==
    (phase = 2 /\ pc = "start") =>
        Tokens(NodeBufOf(input), 0)
            = Nesting(first.tree) \o <<Token("file_end", << >>, << >>)>>

\* to_binary has written a tree with two children and a grandchild
WrittenNodeBufferWitness ==
    /\ phase = 2
    /\ pc = "start"
    /\ Len(first.tree.children) = 2
    /\ first.tree.children[1].children # << >>

\* the byte with bit 6 (value 64) cleared and every other bit kept: raw_id & 0xBF
ClearBit6(raw) == raw - 64 * ((raw \div 64) % 2)

\* C13 as claimed: for every record the loop processed, the registry type selected
\* has the id raw_id & 0x7F, and the record is an array exactly when raw_id & 0x40
\* is not 0.
RecordSplitLowSeven ==
    \A i \in DOMAIN records :
        /\ records[i].id # -1 => records[i].id = records[i].raw % 128
        /\ records[i].is_array <=> (records[i].raw \div 64) % 2 = 1

\* C13 as amended: the registry type selected has the id raw_id & 0xBF (bit 6
\* cleared, bit 7 kept), one is selected whenever that id is in the registry, and
\* the record is an array exactly when raw_id & 0x40 is not 0.
RecordSplitClearsBit6 ==
    \A i \in DOMAIN records :
        /\ records[i].id # -1 => records[i].id = ClearBit6(records[i].raw)
        /\ ClearBit6(records[i].raw) \in TypeIds => records[i].id # -1
        /\ records[i].is_array <=> (records[i].raw \div 64) % 2 = 1

\* the loop has processed an array record, a record without the flag and the
\* NodeEnd marker 254, which it took for the type 190
RecordSplitWitness ==
    /\ \E i \in DOMAIN records : records[i].raw = 254 /\ records[i].id = 190
    /\ \E i \in DOMAIN records : records[i].raw = 69 /\ records[i].is_array
    /\ \E i \in DOMAIN records : records[i].raw = 1 /\ ~records[i].is_array

\* C14: a NodeEnd record closes the element on top of the stack, also when it is
\* the only one: once a NodeEnd has met the root alone on the stack, no later
\* record adds an attribute, text or a child to it, so the root is, while it is on
\* the stack and when it is returned, as it was at that NodeEnd.
NodeEndClosesRoot ==
    closed.tag = "ok" =>
        /\ stack # << >> => Plain(stack[1]) = closed.tree
        /\ Returned => Plain(outcome.tree) = closed.tree

\* C15: FileEnd ends the reading: a FileEnd record is the last record the loop
\* processes, no read of the data section is made for a later record, and the node
\* cursor stays right behind the FileEnd byte, so that no byte that follows it in
\* the node section is read and the tree returned cannot depend on one.
FileEndTerminates ==
    \A i \in DOMAIN records :
        records[i].id = 191 =>
            /\ i = Len(records)
            /\ \A k \in DOMAIN reads : reads[k].rec < i
            /\ pc \in {"exit", "done"}
            /\ node_pos = records[i].at + 1

\* from_binary has returned a tree after a FileEnd that is followed by more bytes
\* of the node section, and has read data for the records before it
FileEndTerminatesWitness ==
    /\ Returned
    /\ records # << >>
    /\ records[Len(records)].id = 191
    /\ node_pos < data_buf_start
    /\ Len(reads) > 1

\* the bytes without their longest run of trailing 0x00 bytes
RECURSIVE StripNul(_)
StripNul(bytes) ==
    IF bytes # << >> /\ bytes[Len(bytes)] = 0
    THEN StripNul(SubSeq(bytes, 1, Len(bytes) - 1))
    ELSE bytes

\* C16: data_buf_read_str succeeds on every length-prefixed payload that is in the
\* data section, the empty one and one of 0x00 bytes only included, and passes to
\* the codec the payload without its trailing 0x00 bytes; its index never goes
\* below 0.
StringReadStrips ==
    /\ \A i \in DOMAIN reads :
          reads[i].kind = "str" => reads[i].passed = StripNul(reads[i].payload)
    /\ outcome # Panic("attempt to subtract with overflow")

\* C17: no byte of the data section is consumed twice: the byte ranges of any two
\* reads that succeeded are disjoint, and a 1-byte or 2-byte read returns only
\* bytes below the position the cursor has after it.
NoByteReadTwice ==
    /\ \A i, j \in DOMAIN reads :
          i < j => (reads[i].to <= reads[j].from \/ reads[j].to <= reads[i].from)
    /\ \A i \in DOMAIN reads :
          reads[i].kind = "narrow" => reads[i].to <= reads[i].after

\* a narrow read has returned a byte left over in a word below an earlier wide or
\* variable-length read, and both narrow lanes have been read
NoByteReadTwiceWitness ==
    /\ \E i, j \in DOMAIN reads :
          /\ i < j
          /\ reads[i].kind \in {"wide", "var", "str"}
          /\ reads[j].kind = "narrow"
          /\ reads[j].from < reads[i].from
    /\ \E i, j \in DOMAIN reads :
          /\ reads[i].kind = "narrow" /\ reads[i].to - reads[i].from = 1
          /\ reads[j].kind = "narrow" /\ reads[j].to - reads[j].from = 2

\* C18: a call of next_key_seed that has ended reports the end of the map exactly
\* when the record it read is NodeEnd; after a key that was deserialised, for a
\* record that was not NodeStart it has called read_node exactly once more and
\* fails with TypeMismatch (expected NodeEnd, found the type read) unless the
\* record read there is NodeEnd, and for NodeStart it has read no closing record.
NextKeySeedProtocol ==
    de.pc = "done" =>
        /\ (de.result = [tag |-> "ok", value |-> "None"]) <=> (de.node_type = "NodeEnd")
        /\ (de.key = "ok" /\ de.node_type = "NodeStart") =>
              /\ de.own = 1
              /\ de.closing = "none"
              /\ de.result = [tag |-> "ok", value |-> "Some"]
        /\ (de.key = "ok" /\ de.node_type # "NodeStart") =>
              /\ de.own = 2
              /\ de.closing = "NodeEnd" => de.result = [tag |-> "ok", value |-> "Some"]
              /\ de.closing \notin {"NodeEnd", "error"} =>
                    de.result = [tag |-> "err", kind |-> "TypeMismatch",
                                 expected |-> "NodeEnd", found |-> de.closing]
              /\ de.closing = "error" => de.result = Err("NodeTypeRead")

\* a call has ended with TypeMismatch: the key of a U8 record was deserialised
\* and the record after it is a String
NextKeySeedWitness ==
    /\ de.pc = "done"
    /\ de.node_type = "U8"
    /\ de.key = "ok"
    /\ de.closing = "String"
    /\ de.result.kind = "TypeMismatch"
====
